---- MODULE Spec2Model ----
(***************************************************************************)
(* State-machine model of rest_framework_simplejwt/views.py: the token     *)
(* views (obtain, refresh, verify, blacklist, cookie delete), the cookie   *)
(* transport they add to the request/response, a compliant browser client  *)
(* holding a cookie jar, the clock and the revocation store.               *)
(*                                                                         *)
(* A request to a TokenViewBase.post view is handled in two steps, because *)
(* the handler reads the clock and the revocation store twice: once while  *)
(* the serializer validates the input (lines 51-56) and once while the     *)
(* cookies are planned (lines 58-64).  Other requests and the clock may    *)
(* move between the two.  Every step takes one unit of time.               *)
(***************************************************************************)
EXTENDS Integers, FiniteSets, Sequences, TLC

\* ---------------------------------------------------------------- bounds
MaxTime == 6
MaxRequests == 3

\* ------------------------------------------------------- program settings
REFRESH_TOKEN_LIFETIME == 5
ACCESS_TOKEN_LIFETIME == 2
SLIDING_TOKEN_LIFETIME == 3

Handlers == {1, 2}

\* api_settings.AUTH_COOKIE is a cookie name, or empty when cookie transport is off
AuthCookieValues == {"", "jwt"}
\* api_settings.AUTH_COOKIE_DOMAIN: "" stands for None (a host-only cookie)
AuthCookieDomains == {"", ".example.com"}
AuthCookiePaths == {"/", "/api/"}
\* offset of the server's local time to UTC: datetime.now() and
\* datetime.fromtimestamp() yield naive local datetimes
TZOffsets == {0, 1}

\* reverse(self.token_refresh_view_name)
RefreshRoute == "/api/token/refresh/"

ObtainViews == {"TokenObtainPairView", "TokenObtainSlidingView"}
RefreshViews == {"TokenRefreshView", "TokenRefreshSlidingView"}
PairViews == {"TokenObtainPairView", "TokenRefreshView"}
SlidingViews == {"TokenObtainSlidingView", "TokenRefreshSlidingView"}
PostViews ==
    ObtainViews \cup RefreshViews \cup {"TokenVerifyView", "TokenBlacklistView"}

VARIABLES
    api_settings,   \* the deployment's settings, never changed
    scheme,         \* "https" or "http": how the client reaches the site
    now,            \* the clock (UTC timestamp)
    blacklist,      \* the revocation store: the jti's of blacklisted tokens
    known,          \* the tokens the client has received in response bodies
    jar,            \* the client's cookie jar, keyed by (name, domain, path)
    req,            \* per handler: the request in flight and its response
    nreq,           \* requests started so far
    loggedOut       \* history: the client logged out with no request in flight
                    \* and no response has set an auth cookie since

vars == <<api_settings, scheme, now, blacklist, known, jar, req, nreq, loggedOut>>

\* ----------------------------------------------------------------- tokens
\* A raw token string, by what it decodes to.  jti is (typ, iat): every step
\* takes time, so no two tokens of a type are minted at the same instant.
NoToken == [typ |-> "none", iat |-> 0, exp |-> 0, rexp |-> 0, root |-> 0]
Malformed == [typ |-> "malformed", iat |-> 0, exp |-> 0, rexp |-> 0, root |-> 0]

jti(t) == <<t.typ, t.iat>>

MakeToken(typ, t, lifetime, root) ==
    [typ |-> typ, iat |-> t, exp |-> t + lifetime, rexp |-> 0, root |-> root]

MakeSliding(t) ==
    [typ |-> "sliding", iat |-> t, exp |-> t + SLIDING_TOKEN_LIFETIME,
     rexp |-> t + REFRESH_TOKEN_LIFETIME, root |-> t + REFRESH_TOKEN_LIFETIME]

\* Token(raw) of class cls at time t against revocation store bl: "ok", or the
\* reason of the TokenError raised
ParseToken(raw, cls, t, bl) ==
    IF raw.typ \notin {"access", "refresh", "sliding"} THEN "malformed"
    ELSE IF raw.exp <= t THEN "expired"
    ELSE IF cls # "untyped" /\ raw.typ # cls THEN "wrong_type"
    ELSE IF jti(raw) \in bl THEN "blacklisted"
    ELSE "ok"

\* e.args[0] of the TokenError
TokenErrorDetail(reason) ==
    CASE reason = "blacklisted" -> "Token is blacklisted"
      [] reason = "wrong_type" -> "Token has wrong type"
      [] reason = "expired" -> "Token is invalid or expired"
      [] reason = "malformed" -> "Token is invalid or expired"
      [] reason = "refresh_lapsed" -> "Token 'refresh_exp' claim has expired"
      [] OTHER -> ""

\* -------------------------------------------------------------- datetimes
\* datetime.now(): the naive local time
DatetimeNow(t) == t + api_settings.tz
\* datetime.fromtimestamp(ts): the naive local time of a UTC timestamp
FromTimestamp(ts) == ts + api_settings.tz

\* ------------------------------------------------------- request and data
\* request.data: a field that is absent holds NoToken / FALSE / ""
EmptyBody == [refresh |-> NoToken, token |-> NoToken, other |-> FALSE, credentials |-> ""]
\* serializer.validated_data
NoData == [access |-> NoToken, refresh |-> NoToken, token |-> NoToken]

\* `not request.data`
IsEmpty(data) == data = EmptyBody

RefreshCookieName == api_settings.AUTH_COOKIE \o "_refresh"

IdleReq ==
    [pc |-> "idle", view |-> "", body |-> EmptyBody, data |-> EmptyBody,
     COOKIES |-> {}, cookieRead |-> FALSE, out |-> NoData, status |-> 0,
     exc |-> "", detail |-> "", cookies |-> {}, csrf |-> FALSE,
     minted |-> {}, t0 |-> 0, t1 |-> 0, wasBlacklisted |-> FALSE,
     afterLogout |-> FALSE, payload |-> NoData, is_secure |-> FALSE]

\* exception -> status code of the response the framework renders; a TokenError
\* that nothing catches leaves the view as an unhandled fault (500)
StatusOf(exc) ==
    CASE exc = "" -> 200
      [] exc = "ValidationError" -> 400
      [] exc = "TokenError" -> 500
      [] OTHER -> 401

\* ----------------------------------------------------------------- client
\* A compliant browser: the jar is keyed by (name, domain, path); a cookie is
\* sent while it has not expired and its path is a prefix of the request's.
CookieKey(c) == <<c.name, c.domain, c.path>>

PathMatches(path, view) ==
    IF path = RefreshRoute THEN view = "TokenRefreshView" ELSE TRUE

ClientCookies(view) ==
    {[name |-> c.name, value |-> c.value] :
        c \in {d \in jar : /\ d.expires > now
                           /\ PathMatches(d.path, view)
                           /\ d.secure => scheme = "https"}}

\* request.COOKIES.get(name): NoToken stands for None
CookieGet(COOKIES, name) ==
    IF \E c \in COOKIES : c.name = name
    THEN (CHOOSE c \in COOKIES : c.name = name).value
    ELSE NoToken

\* The jar after a response: a cookie replaces the one of its key, and one that
\* is already expired (a deletion) only removes it.
ApplyCookies(j, cookies, t) ==
    {c \in j : ~ \E d \in cookies : CookieKey(d) = CookieKey(c)}
        \cup {d \in cookies : d.expires > t}

\* ----------------------------------------------------- transport resolver
\* faulty variants of the resolver: one that passes a request without cookie
\* on, one that prefers the cookie, one that asks for the field instead of the
\* body
ExtractPairNoRaise(request) ==
    IF IsEmpty(request.data)
    THEN LET token == CookieGet(request.COOKIES, RefreshCookieName) IN
         [exc |-> "", data |-> [request.data EXCEPT !.refresh = token],
          cookieRead |-> TRUE]
    ELSE [exc |-> "", data |-> request.data, cookieRead |-> FALSE]

ExtractPairCookieFirst(request) ==
    LET token == CookieGet(request.COOKIES, RefreshCookieName) IN
    IF token = NoToken
    THEN IF IsEmpty(request.data)
         THEN [exc |-> "NotAuthenticated", data |-> request.data, cookieRead |-> TRUE]
         ELSE [exc |-> "", data |-> request.data, cookieRead |-> TRUE]
    ELSE [exc |-> "", data |-> [request.data EXCEPT !.refresh = token],
          cookieRead |-> TRUE]

ExtractPairFieldCheck(request) ==
    IF request.data.refresh = NoToken
    THEN LET token == CookieGet(request.COOKIES, RefreshCookieName) IN
         IF token = NoToken
         THEN [exc |-> "NotAuthenticated", data |-> request.data, cookieRead |-> TRUE]
         ELSE [exc |-> "", data |-> [request.data EXCEPT !.refresh = token],
               cookieRead |-> TRUE]
    ELSE [exc |-> "", data |-> request.data, cookieRead |-> FALSE]

\* TokenCookieViewMixin.extract_token_from_cookie
ExtractPair(request) ==
    IF IsEmpty(request.data)
    THEN LET token == CookieGet(request.COOKIES, RefreshCookieName) IN
         IF token = NoToken
         THEN [exc |-> "NotAuthenticated", data |-> request.data, cookieRead |-> TRUE]
         ELSE [exc |-> "", data |-> [request.data EXCEPT !.refresh = token],
               cookieRead |-> TRUE]
    ELSE [exc |-> "", data |-> request.data, cookieRead |-> FALSE]

\* faulty variant: the sliding resolver fills the pair views' field
ExtractSlidingIntoRefresh(request) ==
    IF IsEmpty(request.data)
    THEN LET token == CookieGet(request.COOKIES, api_settings.AUTH_COOKIE) IN
         IF token = NoToken
         THEN [exc |-> "NotAuthenticated", data |-> request.data, cookieRead |-> TRUE]
         ELSE [exc |-> "", data |-> [request.data EXCEPT !.refresh = token],
               cookieRead |-> TRUE]
    ELSE [exc |-> "", data |-> request.data, cookieRead |-> FALSE]

\* SlidingTokenCookieViewMixin.extract_token_from_cookie
ExtractSliding(request) ==
    IF IsEmpty(request.data)
    THEN LET token == CookieGet(request.COOKIES, api_settings.AUTH_COOKIE) IN
         IF token = NoToken
         THEN [exc |-> "NotAuthenticated", data |-> request.data, cookieRead |-> TRUE]
         ELSE [exc |-> "", data |-> [request.data EXCEPT !.token = token],
               cookieRead |-> TRUE]
    ELSE [exc |-> "", data |-> request.data, cookieRead |-> FALSE]

\* extract_token_from_cookie as the view's class resolves it
extract_token_from_cookie(view, request) ==
    IF view = "TokenRefreshView" THEN ExtractPair(request)
    ELSE ExtractSliding(request)

\* TokenRefreshViewBase.post, up to the call of super().post: the other views
\* go straight to TokenViewBase.post
Resolve(view, request) ==
    IF view \in RefreshViews /\ api_settings.AUTH_COOKIE # ""
    THEN extract_token_from_cookie(view, request)
    ELSE [exc |-> "", data |-> request.data, cookieRead |-> FALSE]

\* ------------------------------------------------------------ serializers
Fail(exc, reason) ==
    [exc |-> exc, reason |-> reason, out |-> NoData, minted |-> {}, revoked |-> {}]

Pass(out, minted, revoked) ==
    [exc |-> "", reason |-> "", out |-> out, minted |-> minted, revoked |-> revoked]

\* TOKEN_OBTAIN_SERIALIZER / SLIDING_TOKEN_OBTAIN_SERIALIZER
ValidateObtain(view, data, t) ==
    IF data.credentials = "" THEN Fail("ValidationError", "required")
    ELSE IF data.credentials # "good" THEN Fail("AuthenticationFailed", "credentials")
    ELSE IF view = "TokenObtainPairView"
    THEN LET r == MakeToken("refresh", t, REFRESH_TOKEN_LIFETIME, t + REFRESH_TOKEN_LIFETIME)
             a == MakeToken("access", t, ACCESS_TOKEN_LIFETIME, t + REFRESH_TOKEN_LIFETIME)
         IN Pass([NoData EXCEPT !.access = a, !.refresh = r], {a, r}, {})
    ELSE LET s == MakeSliding(t)
         IN Pass([NoData EXCEPT !.token = s], {s}, {})

\* TOKEN_REFRESH_SERIALIZER: a new access token always; a new refresh token
\* when ROTATE_REFRESH_TOKENS; otherwise the payload has no refresh, or
\* (echo) carries the incoming one unchanged
ValidateRefresh(data, t, bl, echo) ==
    IF data.refresh = NoToken THEN Fail("ValidationError", "required")
    ELSE LET why == ParseToken(data.refresh, "refresh", t, bl) IN
         IF why # "ok" THEN Fail("TokenError", why)
         ELSE LET a == MakeToken("access", t, ACCESS_TOKEN_LIFETIME, data.refresh.root)
                  r == MakeToken("refresh", t, REFRESH_TOKEN_LIFETIME, data.refresh.root)
              IN IF api_settings.ROTATE_REFRESH_TOKENS
                 THEN Pass([NoData EXCEPT !.access = a, !.refresh = r], {a, r}, {})
                 ELSE IF echo
                 THEN Pass([NoData EXCEPT !.access = a, !.refresh = data.refresh], {a}, {})
                 ELSE Pass([NoData EXCEPT !.access = a], {a}, {})

\* SLIDING_TOKEN_REFRESH_SERIALIZER: the same token with a new exp, while its
\* refresh period has not lapsed
ValidateRefreshSliding(data, t, bl) ==
    IF data.token = NoToken THEN Fail("ValidationError", "required")
    ELSE LET why == ParseToken(data.token, "sliding", t, bl) IN
         IF why # "ok" THEN Fail("TokenError", why)
         ELSE IF data.token.rexp <= t THEN Fail("TokenError", "refresh_lapsed")
         ELSE LET s == [data.token EXCEPT !.exp = t + SLIDING_TOKEN_LIFETIME]
              IN Pass([NoData EXCEPT !.token = s], {s}, {})

\* TOKEN_VERIFY_SERIALIZER: any token that decodes, is unexpired and is not
\* blacklisted; an empty payload
ValidateVerify(data, t, bl) ==
    IF data.token = NoToken THEN Fail("ValidationError", "required")
    ELSE LET why == ParseToken(data.token, "untyped", t, bl) IN
         IF why # "ok" THEN Fail("TokenError", why) ELSE Pass(NoData, {}, {})

\* TOKEN_BLACKLIST_SERIALIZER: verifies the refresh token, then records its jti
ValidateBlacklist(data, t, bl) ==
    IF data.refresh = NoToken THEN Fail("ValidationError", "required")
    ELSE LET why == ParseToken(data.refresh, "refresh", t, bl) IN
         IF why # "ok" THEN Fail("TokenError", why)
         ELSE Pass(NoData, {}, {jti(data.refresh)})

\* serializer.is_valid(raise_exception=True) of the view's serializer class
is_valid(view, data, t, bl, echo) ==
    CASE view \in ObtainViews -> ValidateObtain(view, data, t)
      [] view = "TokenRefreshView" -> ValidateRefresh(data, t, bl, echo)
      [] view = "TokenRefreshSlidingView" -> ValidateRefreshSliding(data, t, bl)
      [] view = "TokenVerifyView" -> ValidateVerify(data, t, bl)
      [] OTHER -> ValidateBlacklist(data, t, bl)

\* ------------------------------------------------- TokenViewBase.post, part 1
\* faulty variant: the TokenError is not caught
TranslateNothing(exc) == exc

\* faulty variant: every exception of the serializer is caught and translated
TranslateAll(exc) == "InvalidToken"

\* except TokenError as e: raise InvalidToken(e.args[0])
Translate(exc) == IF exc = "TokenError" THEN "InvalidToken" ELSE exc

\* the token a request submits, after the transport resolver
Submitted(view, data) ==
    IF view \in {"TokenRefreshView", "TokenBlacklistView"} THEN data.refresh
    ELSE data.token

\* The requests a client may send to a view
TokensToSend == known \cup {Malformed}

Bodies(view) ==
    IF view \in ObtainViews
    THEN {[EmptyBody EXCEPT !.credentials = c] : c \in {"good", "bad"}}
    ELSE IF view \in {"TokenRefreshView", "TokenBlacklistView"}
    THEN {EmptyBody, [EmptyBody EXCEPT !.other = TRUE]}
            \cup {[EmptyBody EXCEPT !.refresh = t] : t \in TokensToSend}
    ELSE {EmptyBody, [EmptyBody EXCEPT !.other = TRUE]}
            \cup {[EmptyBody EXCEPT !.token = t] : t \in TokensToSend}

Echoes(view) ==
    IF view = "TokenRefreshView" /\ ~api_settings.ROTATE_REFRESH_TOKENS
    THEN BOOLEAN ELSE {FALSE}

\* a handler is free unless it is between its two steps; the second handler
\* serves only requests that arrive while the first is busy
MayStart(h) ==
    /\ nreq < MaxRequests
    /\ now < MaxTime
    /\ req[h].pc # "validated"
    /\ h = 2 => req[1].pc = "validated"

\* The response of a request that raised exc
ErrorResponse(r, exc, reason) ==
    [r EXCEPT !.pc = "done", !.exc = exc, !.status = StatusOf(exc), !.t1 = now,
              !.detail = IF exc \in {"InvalidToken", "TokenError"}
                         THEN TokenErrorDetail(reason) ELSE reason]

\* TokenRefreshViewBase.post / TokenViewBase.post, lines 51-56: resolve the
\* transport, validate the input
StartRequest(h, view, body, echo) ==
    /\ MayStart(h)
    /\ LET COOKIES == ClientCookies(view)
           res == Resolve(view, [data |-> body, COOKIES |-> COOKIES])
           r0 == [IdleReq EXCEPT !.view = view, !.body = body, !.COOKIES = COOKIES,
                                 !.data = res.data, !.cookieRead = res.cookieRead,
                                 !.t0 = now, !.afterLogout = loggedOut,
                                 !.is_secure = (scheme = "https"),
                                 !.wasBlacklisted =
                                     jti(Submitted(view, res.data)) \in blacklist]
           v == is_valid(view, res.data, now, blacklist, echo)
       IN IF res.exc # ""
          THEN /\ req' = [req EXCEPT ![h] = ErrorResponse(r0, res.exc, "")]
               /\ UNCHANGED blacklist
          ELSE IF v.exc # ""
          THEN /\ req' = [req EXCEPT ![h] = ErrorResponse(r0, Translate(v.exc), v.reason)]
               /\ UNCHANGED blacklist
          ELSE /\ req' = [req EXCEPT ![h] = [r0 EXCEPT !.pc = "validated",
                                                     !.out = v.out,
                                                     !.minted = v.minted]]
               /\ blacklist' = blacklist \cup v.revoked
    /\ now' = now + 1
    /\ nreq' = nreq + 1
    /\ UNCHANGED <<api_settings, scheme, known, jar, loggedOut>>

\* --------------------------------------------------- cookie delivery planner
\* faulty variant: every cookie is marked Secure
SetCookieSecureAlways(name, value, expires, domain, path) ==
    [name |-> name, value |-> value, expires |-> expires, domain |-> domain,
     path |-> path, httponly |-> TRUE,
     secure |-> TRUE,
     samesite |-> api_settings.AUTH_COOKIE_SAMESITE]

\* response.set_cookie(..., secure=api_settings.AUTH_COOKIE_SECURE or None,
\* httponly=True, samesite=api_settings.AUTH_COOKIE_SAMESITE): a secure of
\* None sets no Secure attribute, like False
SetCookie(name, value, expires, domain, path) ==
    [name |-> name, value |-> value, expires |-> expires, domain |-> domain,
     path |-> path, httponly |-> TRUE,
     secure |-> api_settings.AUTH_COOKIE_SECURE,
     samesite |-> api_settings.AUTH_COOKIE_SAMESITE]

\* response.delete_cookie: the cookie of that key, empty and already expired
DeleteCookie(name, domain, path) ==
    [name |-> name, value |-> NoToken, expires |-> 0, domain |-> domain,
     path |-> path, httponly |-> FALSE, secure |-> FALSE, samesite |-> ""]

\* TokenCookieViewMixin.get_refresh_token_expiration
MixinExpiration(t) ==
    [exc |-> "", reason |-> "", expires |-> DatetimeNow(t) + REFRESH_TOKEN_LIFETIME]

\* faulty variant: the expiration is always now + lifetime
RefreshExpirationAlwaysNow(r, t, bl) == MixinExpiration(t)

\* faulty variant: the view's request is shared by the handlers, the one of
\* the first handler is read
RefreshExpirationShared(r, t, bl) ==
    IF api_settings.ROTATE_REFRESH_TOKENS THEN MixinExpiration(t)
    ELSE LET other == IF req[1].pc # "idle" THEN req[1] ELSE r
             why == ParseToken(other.data.refresh, "refresh", t, bl) IN
         IF why # "ok"
         THEN [exc |-> "TokenError", reason |-> why, expires |-> 0]
         ELSE [exc |-> "", reason |-> "",
               expires |-> FromTimestamp(other.data.refresh.exp)]

\* TokenRefreshView.get_refresh_token_expiration: RefreshToken(...) verifies the
\* token again, at the time and against the store of this second read
RefreshExpiration(r, t, bl) ==
    IF api_settings.ROTATE_REFRESH_TOKENS THEN MixinExpiration(t)
    ELSE LET why == ParseToken(r.data.refresh, "refresh", t, bl) IN
         IF why # "ok"
         THEN [exc |-> "TokenError", reason |-> why, expires |-> 0]
         ELSE [exc |-> "", reason |-> "",
               expires |-> FromTimestamp(r.data.refresh.exp)]

\* faulty variant: the mixin's method shadows the view's
MixinExpirationOnly(r, t, bl) == MixinExpiration(t)

\* self.get_refresh_token_expiration() as the view's class resolves it
get_refresh_token_expiration(r, t, bl) ==
    IF r.view = "TokenRefreshView" THEN RefreshExpiration(r, t, bl)
    ELSE MixinExpiration(t)

\* faulty variant: the refresh cookie goes out with the access cookie's path
SetPairCookiesOnePath(r, t, bl) ==
    LET e == get_refresh_token_expiration(r, t, bl) IN
    IF e.exc # "" THEN [exc |-> e.exc, reason |-> e.reason, cookies |-> {}]
    ELSE [exc |-> "", reason |-> "",
          cookies |->
            {SetCookie(api_settings.AUTH_COOKIE, r.out.access, e.expires,
                       api_settings.AUTH_COOKIE_DOMAIN, api_settings.AUTH_COOKIE_PATH)}
            \cup (IF r.out.refresh # NoToken
                  THEN {SetCookie(RefreshCookieName, r.out.refresh, e.expires,
                                  api_settings.AUTH_COOKIE_DOMAIN,
                                  api_settings.AUTH_COOKIE_PATH)}
                  ELSE {})]

\* faulty variant: the refresh cookie is set whether or not the payload has a
\* refresh token
SetPairCookiesBoth(r, t, bl) ==
    LET e == get_refresh_token_expiration(r, t, bl) IN
    IF e.exc # "" THEN [exc |-> e.exc, reason |-> e.reason, cookies |-> {}]
    ELSE [exc |-> "", reason |-> "",
          cookies |->
            {SetCookie(api_settings.AUTH_COOKIE, r.out.access, e.expires,
                       api_settings.AUTH_COOKIE_DOMAIN, api_settings.AUTH_COOKIE_PATH),
             SetCookie(RefreshCookieName, r.out.refresh, e.expires,
                       api_settings.AUTH_COOKIE_DOMAIN, RefreshRoute)}]

\* faulty variant: the refresh cookie is set with the token the request
\* submitted
SetPairCookiesSubmitted(r, t, bl) ==
    LET e == get_refresh_token_expiration(r, t, bl) IN
    IF e.exc # "" THEN [exc |-> e.exc, reason |-> e.reason, cookies |-> {}]
    ELSE [exc |-> "", reason |-> "",
          cookies |->
            {SetCookie(api_settings.AUTH_COOKIE, r.out.access, e.expires,
                       api_settings.AUTH_COOKIE_DOMAIN, api_settings.AUTH_COOKIE_PATH)}
            \cup (IF r.out.refresh # NoToken
                  THEN {SetCookie(RefreshCookieName, r.data.refresh, e.expires,
                                  api_settings.AUTH_COOKIE_DOMAIN, RefreshRoute)}
                  ELSE {})]

\* TokenCookieViewMixin.set_auth_cookies
SetPairCookies(r, t, bl) ==
    LET e == get_refresh_token_expiration(r, t, bl) IN
    IF e.exc # "" THEN [exc |-> e.exc, reason |-> e.reason, cookies |-> {}]
    ELSE [exc |-> "", reason |-> "",
          cookies |->
            {SetCookie(api_settings.AUTH_COOKIE, r.out.access, e.expires,
                       api_settings.AUTH_COOKIE_DOMAIN, api_settings.AUTH_COOKIE_PATH)}
            \cup (IF r.out.refresh # NoToken
                  THEN {SetCookie(RefreshCookieName, r.out.refresh, e.expires,
                                  api_settings.AUTH_COOKIE_DOMAIN, RefreshRoute)}
                  ELSE {})]

\* SlidingTokenCookieViewMixin.set_auth_cookies
SetSlidingCookies(r, t) ==
    [exc |-> "", reason |-> "",
     cookies |->
        {SetCookie(api_settings.AUTH_COOKIE, r.out.token,
                   DatetimeNow(t) + REFRESH_TOKEN_LIFETIME,
                   api_settings.AUTH_COOKIE_DOMAIN, api_settings.AUTH_COOKIE_PATH)}]

\* self.set_auth_cookies(response, data) as the view's class resolves it
set_auth_cookies(r, t, bl) ==
    CASE r.view \in PairViews -> SetPairCookies(r, t, bl)
      [] r.view \in SlidingViews -> SetSlidingCookies(r, t)
      [] OTHER -> [exc |-> "", reason |-> "", cookies |-> {}]

\* faulty variant: the cookies are planned whatever the transport
PlanCookiesAlways(r, t, bl) ==
    [exc |-> "", reason |-> "", csrf |-> TRUE,
     cookies |-> set_auth_cookies(r, t, bl).cookies]

\* TokenViewBase.post, lines 60-62: under cookie transport csrf.get_token and
\* then set_auth_cookies
PlanCookies(r, t, bl) ==
    IF api_settings.AUTH_COOKIE # ""
    THEN LET plan == set_auth_cookies(r, t, bl) IN
         [exc |-> plan.exc, reason |-> plan.reason, csrf |-> TRUE,
          cookies |-> plan.cookies]
    ELSE [exc |-> "", reason |-> "", csrf |-> FALSE, cookies |-> {}]

\* TokenViewBase.post, lines 58-64: the response, and its cookies when cookie
\* transport is configured; the client takes the response
FinishRequest(h) ==
    /\ req[h].pc = "validated"
    /\ now < MaxTime
    /\ LET r == req[h]
           plan == PlanCookies(r, now, blacklist)
       IN IF plan.exc # ""
          THEN /\ req' = [req EXCEPT ![h] =
                            ErrorResponse([r EXCEPT !.csrf = plan.csrf],
                                          plan.exc, plan.reason)]
               /\ UNCHANGED <<jar, known, loggedOut>>
          ELSE /\ req' = [req EXCEPT ![h] =
                            [r EXCEPT !.pc = "done", !.status = 200, !.t1 = now,
                                      !.payload = r.out,
                                      !.csrf = plan.csrf,
                                      !.cookies = plan.cookies]]
               /\ jar' = ApplyCookies(jar, plan.cookies, now)
               /\ known' = known \cup r.minted
               /\ loggedOut' = (loggedOut /\ plan.cookies = {})
    /\ now' = now + 1
    /\ UNCHANGED <<api_settings, scheme, blacklist, nreq>>

\* TokenCookieDeleteView.delete_auth_cookies
delete_auth_cookies ==
    {DeleteCookie(api_settings.AUTH_COOKIE, api_settings.AUTH_COOKIE_DOMAIN,
                  api_settings.AUTH_COOKIE_PATH),
     DeleteCookie(RefreshCookieName, "", RefreshRoute)}

\* TokenCookieDeleteView.post
Logout(h) ==
    /\ MayStart(h)
    /\ LET cookies == IF api_settings.AUTH_COOKIE # "" THEN delete_auth_cookies ELSE {}
       IN /\ req' = [req EXCEPT ![h] =
                       [IdleReq EXCEPT !.pc = "done", !.view = "TokenCookieDeleteView",
                                       !.COOKIES = ClientCookies("TokenCookieDeleteView"),
                                       !.status = 200, !.cookies = cookies,
                                       !.is_secure = (scheme = "https"),
                                       !.t0 = now, !.t1 = now]]
          /\ jar' = ApplyCookies(jar, cookies, now)
    /\ loggedOut' = \A g \in Handlers : req[g].pc # "validated"
    /\ now' = now + 1
    /\ nreq' = nreq + 1
    /\ UNCHANGED <<api_settings, scheme, blacklist, known>>

\* time passes; only the handlers read the clock, so it is left alone once no
\* request is in flight and none may start
Tick ==
    /\ now < MaxTime
    /\ nreq < MaxRequests \/ \E h \in Handlers : req[h].pc = "validated"
    /\ now' = now + 1
    /\ UNCHANGED <<api_settings, scheme, blacklist, known, jar, req, nreq, loggedOut>>

\* ------------------------------------------------------------ specification
\* Every combination of the settings
AllSettings ==
    [AUTH_COOKIE : AuthCookieValues, ROTATE_REFRESH_TOKENS : BOOLEAN,
     AUTH_COOKIE_DOMAIN : AuthCookieDomains, AUTH_COOKIE_PATH : AuthCookiePaths,
     AUTH_COOKIE_SECURE : BOOLEAN, AUTH_COOKIE_SAMESITE : {"Lax"},
     tz : TZOffsets]

\* The settings a deployment may have; the cookie attributes and the time
\* zone are read only under cookie transport.  Here the site is reached over
\* https and AUTH_COOKIE_SECURE is off; SettingsSecure varies these two.
Settings ==
    {s \in AllSettings :
        /\ ~s.AUTH_COOKIE_SECURE
        /\ s.AUTH_COOKIE = "" =>
              s.AUTH_COOKIE_DOMAIN = "" /\ s.AUTH_COOKIE_PATH = "/" /\ s.tz = 0}

\* Cookie transport with AUTH_COOKIE_SECURE on or off, the other cookie
\* attributes fixed
SettingsSecure ==
    {s \in AllSettings :
        /\ s.AUTH_COOKIE # ""
        /\ s.AUTH_COOKIE_DOMAIN = "" /\ s.AUTH_COOKIE_PATH = "/" /\ s.tz = 0}

Start ==
    /\ now = 0
    /\ blacklist = {}
    /\ known = {}
    /\ jar = {}
    /\ req = [h \in Handlers |-> IdleReq]
    /\ nreq = 0
    /\ loggedOut = FALSE

Init ==
    /\ api_settings \in Settings
    /\ scheme = "https"
    /\ Start

InitSecure ==
    /\ api_settings \in SettingsSecure
    /\ scheme \in {"http", "https"}
    /\ Start

Request ==
    \E h \in Handlers, view \in PostViews :
        \E body \in Bodies(view), echo \in Echoes(view) :
            StartRequest(h, view, body, echo)

Respond == \E h \in Handlers : FinishRequest(h)

LogoutRequest == \E h \in Handlers : Logout(h)

Next == Request \/ Respond \/ LogoutRequest \/ Tick

Spec == Init /\ [][Next]_vars

\* the same views, for the deployments of SettingsSecure over http and https
SpecSecure == InitSecure /\ [][Next]_vars

\* ==================================================================== claims
\* the naive local datetime that stands for a UTC timestamp
LocalTime(ts) == ts + api_settings.tz

CookieTransport == api_settings.AUTH_COOKIE # ""

\* a request that got its 200 response
Succeeded(r) == r.pc = "done" /\ r.status = 200 /\ r.exc = ""

\* the cookie a refresh view reads its token from
BearingCookie(view) ==
    IF view = "TokenRefreshView" THEN RefreshCookieName ELSE api_settings.AUTH_COOKIE

\* the token field of a refresh view
FieldOf(view, data) ==
    IF view = "TokenRefreshView" THEN data.refresh ELSE data.token

\* C1: every successful pair Refresh under cookie transport sets its cookies
\* with the expiration of the incoming refresh token's exp when
\* ROTATE_REFRESH_TOKENS is off, and with now + REFRESH_TOKEN_LIFETIME when it
\* is on, which is then strictly later than the incoming token's exp.
C1_RefreshCookieExpiration ==
    \A h \in Handlers :
        LET r == req[h] IN
        (CookieTransport /\ r.view = "TokenRefreshView" /\ Succeeded(r)) =>
            /\ r.cookies # {}
            /\ \A c \in r.cookies :
                  IF api_settings.ROTATE_REFRESH_TOKENS
                  THEN /\ c.expires = LocalTime(r.t1 + REFRESH_TOKEN_LIFETIME)
                       /\ c.expires > LocalTime(r.data.refresh.exp)
                  ELSE c.expires = LocalTime(r.data.refresh.exp)

C1_Witness ==
    \E h \in Handlers :
        /\ CookieTransport /\ api_settings.ROTATE_REFRESH_TOKENS
        /\ req[h].view = "TokenRefreshView" /\ Succeeded(req[h])
        /\ req[h].t0 < req[h].data.refresh.exp
        /\ Cardinality(req[h].cookies) = 2

\* C2: with ROTATE_REFRESH_TOKENS off, no cookie a successful Refresh sets
\* (token from the cookie or from the body) expires later than the refresh
\* token that the session's Obtain issued (the root of the cookie's token).
C2_NoSessionExtension ==
    ~api_settings.ROTATE_REFRESH_TOKENS =>
        \A h \in Handlers :
            (req[h].view = "TokenRefreshView" /\ Succeeded(req[h])) =>
                \A c \in req[h].cookies : c.expires <= LocalTime(c.value.root)

C2_Witness ==
    \E h \in Handlers :
        /\ CookieTransport /\ ~api_settings.ROTATE_REFRESH_TOKENS
        /\ req[h].view = "TokenRefreshView" /\ Succeeded(req[h])
        /\ req[h].cookieRead
        /\ req[h].t1 > req[h].data.refresh.iat + 2
        /\ \E c \in req[h].cookies : c \in jar /\ c.value.typ = "access"

\* C3: under cookie transport a Refresh (pair or sliding) with an empty body
\* and without the token-bearing cookie fails with NotAuthenticated, before
\* any validation, and mints no token.
C3_MissingCookieUnauthenticated ==
    \A h \in Handlers :
        LET r == req[h] IN
        (/\ CookieTransport /\ r.pc # "idle" /\ r.view \in RefreshViews
         /\ IsEmpty(r.body)
         /\ CookieGet(r.COOKIES, BearingCookie(r.view)) = NoToken) =>
            /\ r.pc = "done" /\ r.exc = "NotAuthenticated" /\ r.status = 401
            /\ r.data = r.body /\ r.out = NoData /\ r.minted = {}
            /\ r.cookies = {}

C3_Witness ==
    \E h \in Handlers :
        /\ req[h].view = "TokenRefreshView" /\ IsEmpty(req[h].body)
        /\ req[h].exc = "NotAuthenticated"
        /\ req[h].COOKIES # {}

\* the token class a refresh view parses its token as
ClassOf(view) == IF view = "TokenRefreshView" THEN "refresh" ELSE "sliding"

\* whether token tok, had it been the one validated when request r started,
\* was rejected
RejectedAtStart(r, tok) ==
    \/ ParseToken(tok, ClassOf(r.view), r.t0,
                  IF r.wasBlacklisted THEN {jti(tok)} ELSE {}) # "ok"
    \/ r.view = "TokenRefreshSlidingView" /\ tok.rexp <= r.t0

\* what C4 and C5 say of a request whose token came from the cookie
LookedUp(r) ==
    /\ r.cookieRead
    /\ IF CookieGet(r.COOKIES, BearingCookie(r.view)) = NoToken
       THEN r.pc = "done" /\ r.exc = "NotAuthenticated"
       ELSE /\ FieldOf(r.view, r.data) = CookieGet(r.COOKIES, BearingCookie(r.view))
            /\ r.exc \notin {"NotAuthenticated", "ValidationError"}
            /\ RejectedAtStart(r, FieldOf(r.view, r.data)) <=> r.exc = "InvalidToken"

\* C4 as stated: under cookie transport every Refresh whose body lacks the
\* token field, empty or not, has the cookie looked up: injected and
\* validated when present, NotAuthenticated when absent.
C4_Original ==
    \A h \in Handlers :
        LET r == req[h] IN
        (/\ CookieTransport /\ r.pc # "idle" /\ r.view \in RefreshViews
         /\ FieldOf(r.view, r.body) = NoToken) => LookedUp(r)

\* C4 amended: the cookie is looked up exactly when the body is empty; a body
\* that carries only other fields is passed on unchanged, no cookie is read,
\* and the request fails validation for the missing field.
C4_EmptyBodyLookup ==
    \A h \in Handlers :
        LET r == req[h] IN
        (/\ CookieTransport /\ r.pc # "idle" /\ r.view \in RefreshViews
         /\ FieldOf(r.view, r.body) = NoToken) =>
            IF IsEmpty(r.body) THEN LookedUp(r)
            ELSE /\ ~r.cookieRead /\ r.data = r.body
                 /\ r.pc = "done" /\ r.exc = "ValidationError" /\ r.status = 400

C4_Witness ==
    \E h \in Handlers :
        /\ CookieTransport /\ req[h].view = "TokenRefreshView"
        /\ req[h].body.other /\ req[h].body.refresh = NoToken
        /\ CookieGet(req[h].COOKIES, RefreshCookieName).typ = "refresh"
        /\ req[h].exc = "ValidationError"

\* C5: the resolver leaves the body alone and reads no cookie in body mode,
\* and in cookie mode when the body carries the token field: the body's token
\* is the one validated, whatever the cookie holds.
C5_BodyPrecedence ==
    \A h \in Handlers :
        LET r == req[h] IN
        (r.pc # "idle" /\ r.view \in PostViews) =>
            /\ ~CookieTransport => (r.data = r.body /\ ~r.cookieRead)
            /\ (/\ CookieTransport /\ r.view \in RefreshViews
                /\ FieldOf(r.view, r.body) # NoToken) =>
                    /\ r.data = r.body /\ ~r.cookieRead
                    /\ RejectedAtStart(r, FieldOf(r.view, r.body))
                            <=> r.exc = "InvalidToken"

C5_Witness ==
    \E h \in Handlers :
        /\ CookieTransport /\ req[h].view = "TokenRefreshView"
        /\ req[h].body.refresh # NoToken
        /\ CookieGet(req[h].COOKIES, RefreshCookieName).typ = "refresh"
        /\ CookieGet(req[h].COOKIES, RefreshCookieName) # req[h].body.refresh
        /\ req[h].exc = "InvalidToken"

\* a step in which handler h serves a Logout
LogoutStep(h) ==
    /\ nreq' = nreq + 1
    /\ req'[h] # req[h]
    /\ req'[h].view = "TokenCookieDeleteView"

\* response resp deletes the cookie of name n as it was set with domain d and
\* path p
Deletes(resp, n, d, p) ==
    \E c \in resp.cookies :
        c.name = n /\ c.domain = d /\ c.path = p /\ c.expires <= resp.t1

\* C6: under cookie transport Logout deletes both auth cookies, each with the
\* domain and path it was set with by Obtain/Refresh: every auth cookie in
\* the client's jar is matched by a deletion, whatever AUTH_COOKIE_DOMAIN and
\* AUTH_COOKIE_PATH are.
C6_LogoutDeletesAsIssued ==
    [][\A h \in Handlers :
          (CookieTransport /\ LogoutStep(h)) =>
              /\ \E c \in req'[h].cookies : c.name = api_settings.AUTH_COOKIE
              /\ \E c \in req'[h].cookies : c.name = RefreshCookieName
              /\ \A c \in jar : Deletes(req'[h], c.name, c.domain, c.path)]_vars

\* C7: under cookie transport, once the client has logged out (no request in
\* flight), every Refresh it sends with an empty body fails with
\* NotAuthenticated, until a response sets auth cookies again.
C7_RefreshAfterLogoutFails ==
    \A h \in Handlers :
        LET r == req[h] IN
        (/\ CookieTransport /\ r.pc # "idle" /\ r.view \in RefreshViews
         /\ r.afterLogout /\ IsEmpty(r.body)) =>
            r.pc = "done" /\ r.exc = "NotAuthenticated"

\* C8: no TokenError leaves a view unhandled: every token-level error, raised
\* by the validation or by the parsing done while the cookies are planned,
\* reaches the client as InvalidToken.
C8_NoTokenErrorEscapes ==
    \A h \in Handlers :
        req[h].pc = "done" => (req[h].exc # "TokenError" /\ req[h].status # 500)

\* C9: two responses of one endpoint that reject the submitted token are the
\* same response (status, code and body), whatever the reasons of rejection.
C9_UniformRejection ==
    \A g, h \in Handlers :
        (/\ req[g].pc = "done" /\ req[h].pc = "done"
         /\ req[g].view = req[h].view
         /\ req[g].exc = "InvalidToken" /\ req[h].exc = "InvalidToken") =>
            /\ req[g].status = req[h].status
            /\ req[g].detail = req[h].detail

\* C10: for a refresh token T that has not expired, Verify(T) gets its 200
\* while T is not blacklisted, and once Blacklist(T) has recorded T every
\* Verify(T) and Refresh(T) that starts fails with InvalidToken, in both
\* transport modes.
C10_BlacklistHonoured ==
    \A h \in Handlers :
        LET r == req[h]
            T == Submitted(r.view, r.data)
        IN (r.pc # "idle" /\ r.view \in PostViews /\ T.typ = "refresh"
                /\ T.exp > r.t0) =>
            /\ (r.view = "TokenVerifyView" /\ ~r.wasBlacklisted) =>
                    (r.pc = "done" => Succeeded(r)) /\ r.exc = ""
            /\ (r.view \in RefreshViews \cup {"TokenVerifyView"} /\ r.wasBlacklisted) =>
                    r.pc = "done" /\ r.exc = "InvalidToken" /\ r.status = 401

C10_Witness ==
    \E g, h \in Handlers :
        /\ req[g].view = "TokenBlacklistView" /\ Succeeded(req[g])
        /\ req[h].view = "TokenRefreshView" /\ req[h].cookieRead
        /\ req[h].data.refresh = req[g].data.refresh
        /\ req[h].data.refresh.exp > req[h].t0
        /\ req[h].wasBlacklisted /\ req[h].exc = "InvalidToken"

\* C11: under cookie transport every response sets the cookie
\* <AUTH_COOKIE>_refresh only with the refresh route as its path and the
\* cookie <AUTH_COOKIE> only with AUTH_COOKIE_PATH, and so the client holds
\* them only under these paths and sends the refresh cookie with no request
\* but one to the refresh endpoint.
C11_CookiePaths ==
    CookieTransport =>
        /\ \A h \in Handlers : \A c \in req[h].cookies :
              /\ c.name = RefreshCookieName => c.path = RefreshRoute
              /\ c.name = api_settings.AUTH_COOKIE =>
                    c.path = api_settings.AUTH_COOKIE_PATH
        /\ \A c \in jar :
              /\ c.name = RefreshCookieName => c.path = RefreshRoute
              /\ c.name = api_settings.AUTH_COOKIE =>
                    c.path = api_settings.AUTH_COOKIE_PATH
        /\ \A h \in Handlers :
              req[h].pc # "idle" /\ req[h].view # "TokenRefreshView" =>
                  CookieGet(req[h].COOKIES, RefreshCookieName) = NoToken

\* a request to another endpoint than refresh, sent with the access cookie
\* while the client holds a live refresh cookie
C11_Witness ==
    /\ CookieTransport
    /\ \E h \in Handlers :
          /\ req[h].pc # "idle"
          /\ req[h].view \in {"TokenVerifyView", "TokenBlacklistView",
                              "TokenRefreshSlidingView", "TokenCookieDeleteView"}
          /\ CookieGet(req[h].COOKIES, api_settings.AUTH_COOKIE) # NoToken
          /\ \E c \in jar : c.name = RefreshCookieName /\ c.expires > req[h].t1

\* C12: every Obtain, Refresh, Verify and Blacklist that succeeds answers
\* 200 with the validated output payload as its body, and cookies are set,
\* deleted or read only under cookie transport: in Body mode no response
\* of any operation, Logout included, carries a cookie or a CSRF token, no
\* request's token is read from a cookie, and the client's jar stays empty.
C12_PayloadAndTransport ==
    \A h \in Handlers :
        LET r == req[h] IN
        /\ r.pc = "done" /\ r.exc = "" /\ r.view \in PostViews =>
              r.status = 200 /\ r.payload = r.out
        /\ r.view \in ObtainViews \cup RefreshViews /\ r.pc = "done" /\ r.exc = "" =>
              \E tok \in r.minted :
                  tok \in {r.payload.access, r.payload.refresh, r.payload.token}
        /\ ~CookieTransport =>
              r.cookies = {} /\ ~r.cookieRead /\ ~r.csrf /\ jar = {}

\* in Body mode a Refresh of a token sent in the body has succeeded, and a
\* Logout has been answered
C12_Witness ==
    /\ ~CookieTransport
    /\ \E g, h \in Handlers :
          /\ req[h].view = "TokenRefreshView" /\ Succeeded(req[h])
          /\ req[h].body.refresh # NoToken
          /\ req[h].payload.access # NoToken
          /\ req[g].view = "TokenCookieDeleteView" /\ req[g].pc = "done"

\* C13 as stated: every auth cookie set by Obtain or Refresh carries secure
\* as given by AUTH_COOKIE_SECURE, and when the request arrived over an
\* insecure context while AUTH_COOKIE_SECURE is on, no auth cookie is set on
\* the response.
C13_Original ==
    \A h \in Handlers :
        LET r == req[h] IN
        Succeeded(r) /\ r.view \in ObtainViews \cup RefreshViews =>
            /\ \A c \in r.cookies : c.secure = api_settings.AUTH_COOKIE_SECURE
            /\ ~r.is_secure /\ api_settings.AUTH_COOKIE_SECURE => r.cookies = {}

\* C13: every auth cookie set by Obtain or Refresh carries secure as given by
\* AUTH_COOKIE_SECURE, and the auth cookie is set whether or not the request
\* arrived over a secure context: with AUTH_COOKIE_SECURE on, the response to
\* an insecure request carries the auth cookie too, marked Secure.
C13_SecureAsConfigured ==
    \A h \in Handlers :
        LET r == req[h] IN
        Succeeded(r) /\ r.view \in ObtainViews \cup RefreshViews =>
            /\ \A c \in r.cookies : c.secure = api_settings.AUTH_COOKIE_SECURE
            /\ \E c \in r.cookies :
                  /\ c.name = api_settings.AUTH_COOKIE
                  /\ c.value \in {r.out.access, r.out.token} \ {NoToken}

\* an Obtain over http under AUTH_COOKIE_SECURE has got its cookies
C13_Witness ==
    \E h \in Handlers :
        /\ Succeeded(req[h]) /\ req[h].view \in ObtainViews
        /\ ~req[h].is_secure /\ api_settings.AUTH_COOKIE_SECURE
        /\ \E c \in req[h].cookies : c.secure /\ c.value # NoToken

\* a step of handler h on a request to view
StepOf(h, view) == req'[h] # req[h] /\ req'[h].view = view

\* C14: Verify is free of side effects under both transports: no step of a
\* Verify request, whether it succeeds or fails, changes the revocation
\* store, mints a token or puts a cookie on the response, the cookie of the
\* CSRF token included, so that the client's jar is after Verify what it was
\* before.
C14_VerifySideEffectFree ==
    [][\A h \in Handlers :
          StepOf(h, "TokenVerifyView") =>
              /\ blacklist' = blacklist /\ known' = known /\ jar' = jar
              /\ req'[h].minted = {} /\ req'[h].cookies = {}
              /\ ~req'[h].csrf]_vars

\* C15: an Obtain with invalid credentials fails with the authentication
\* failure of the serializer, never with InvalidToken: only a token-level
\* error is translated to InvalidToken, every other validation error (a
\* missing field) keeps its own kind, and the failed Obtain mints no token
\* and sets no cookie.
C15_OnlyTokenErrorsTranslated ==
    \A h \in Handlers :
        LET r == req[h] IN
        /\ r.view \in ObtainViews /\ r.pc # "idle" /\ r.body.credentials # "good" =>
              /\ r.pc = "done" /\ r.exc = "AuthenticationFailed" /\ r.status = 401
              /\ r.minted = {} /\ r.out = NoData /\ r.payload = NoData
              /\ r.cookies = {} /\ ~r.csrf
        /\ r.view \in PostViews /\ r.exc = "InvalidToken" =>
              /\ r.view \notin ObtainViews
              /\ Submitted(r.view, r.data) # NoToken
        /\ r.view \in PostViews \ ObtainViews /\ r.pc # "idle"
              /\ Submitted(r.view, r.data) = NoToken /\ r.exc # "NotAuthenticated" =>
              r.pc = "done" /\ r.exc = "ValidationError" /\ r.status = 400

\* under cookie transport, after a successful Obtain has filled the jar, an
\* Obtain with bad credentials has failed
C15_Witness ==
    /\ CookieTransport /\ jar # {}
    /\ \E h \in Handlers :
          /\ req[h].view \in ObtainViews /\ req[h].body.credentials = "bad"
          /\ req[h].exc = "AuthenticationFailed"

\* the cookies of name n among cs
Named(cs, n) == {c \in cs : c.name = n}

\* C16: under cookie transport every successful pair Obtain or Refresh sets
\* the access cookie with the payload's access token, and sets the refresh
\* cookie exactly when the payload has a refresh token, then with that token
\* and with the access cookie's expiration; a Refresh whose payload has no
\* refresh token leaves the client's refresh cookie as it was.
C16_PairCookies ==
    [][\A h \in Handlers :
          LET r == req'[h] IN
          req'[h] # req[h] /\ CookieTransport /\ r.view \in PairViews
                /\ Succeeded(r) =>
              /\ r.payload.access # NoToken
              /\ \E a \in r.cookies :
                    /\ Named(r.cookies, api_settings.AUTH_COOKIE) = {a}
                    /\ a.value = r.payload.access
                    /\ a.expires > r.t1
                    /\ IF r.payload.refresh # NoToken
                       THEN \E c \in r.cookies :
                              /\ Named(r.cookies, RefreshCookieName) = {c}
                              /\ c.value = r.payload.refresh
                              /\ c.expires = a.expires
                              /\ c \in jar'
                       ELSE /\ Named(r.cookies, RefreshCookieName) = {}
                            /\ Named(jar', RefreshCookieName) =
                                  Named(jar, RefreshCookieName)]_vars

\* a Refresh from the cookie has succeeded with a payload without refresh
\* token, and the client still holds the refresh cookie it sent
C16_Witness ==
    /\ CookieTransport
    /\ \E h \in Handlers :
          /\ req[h].view = "TokenRefreshView" /\ Succeeded(req[h])
          /\ req[h].cookieRead /\ req[h].payload.refresh = NoToken
          /\ \E c \in jar : c.name = RefreshCookieName
                            /\ c.value = req[h].data.refresh

\* C17: under cookie transport the sliding Obtain and Refresh read only the
\* cookie <AUTH_COOKIE>, into the field token, and set only the cookie
\* <AUTH_COOKIE>, with the payload's token and the expiration now +
\* REFRESH_TOKEN_LIFETIME whatever ROTATE_REFRESH_TOKENS is, never the cookie
\* <AUTH_COOKIE>_refresh; the pair operations read only the cookie
\* <AUTH_COOKIE>_refresh, into the field refresh, and never use the field
\* token.
C17_SlidingAndPairApart ==
    CookieTransport =>
        \A h \in Handlers :
            LET r == req[h] IN
            /\ r.view \in SlidingViews /\ r.pc # "idle" =>
                  /\ r.data.refresh = r.body.refresh
                  /\ r.cookieRead =>
                        /\ r.view = "TokenRefreshSlidingView"
                        /\ r.data.token = CookieGet(r.COOKIES, api_settings.AUTH_COOKIE)
                        /\ r.exc = "NotAuthenticated" <=> r.data.token = NoToken
                  /\ Succeeded(r) =>
                        /\ r.payload.token # NoToken
                        /\ r.payload.refresh = NoToken /\ r.payload.access = NoToken
                        /\ r.cookies =
                              {SetCookie(api_settings.AUTH_COOKIE, r.payload.token,
                                         LocalTime(r.t1) + REFRESH_TOKEN_LIFETIME,
                                         api_settings.AUTH_COOKIE_DOMAIN,
                                         api_settings.AUTH_COOKIE_PATH)}
            /\ r.view \in PairViews /\ r.pc # "idle" =>
                  /\ r.data.token = r.body.token
                  /\ r.cookieRead =>
                        /\ r.view = "TokenRefreshView"
                        /\ r.data.refresh = CookieGet(r.COOKIES, RefreshCookieName)
                        /\ r.exc = "NotAuthenticated" <=> r.data.refresh = NoToken
                  /\ Succeeded(r) =>
                        /\ r.payload.token = NoToken
                        /\ \A c \in r.cookies :
                              c.value \in {r.payload.access, r.payload.refresh} \ {NoToken}

\* with rotation off a sliding Refresh from the cookie has succeeded while
\* the request carried no refresh cookie
C17_Witness ==
    /\ CookieTransport /\ ~api_settings.ROTATE_REFRESH_TOKENS
    /\ \E h \in Handlers :
          /\ req[h].view = "TokenRefreshSlidingView" /\ Succeeded(req[h])
          /\ req[h].cookieRead
          /\ \E c \in req[h].cookies : c.value = req[h].payload.token

\* the first step of a request, by its own body and cookies, the settings,
\* the clock and the revocation store alone
OwnValidation(r) ==
    LET res == Resolve(r.view, [data |-> r.body, COOKIES |-> r.COOKIES]) IN
    /\ r.data = res.data /\ r.cookieRead = res.cookieRead /\ r.t0 = now
    /\ \E echo \in Echoes(r.view) :
          LET v == is_valid(r.view, res.data, now, blacklist, echo) IN
          IF res.exc # "" THEN r.pc = "done" /\ r.exc = res.exc
          ELSE IF v.exc # "" THEN r.pc = "done" /\ r.exc = Translate(v.exc)
          ELSE r.pc = "validated" /\ r.out = v.out /\ r.minted = v.minted

\* the second step of request r, answered as s, by its own resolved token and
\* payload, the settings, the clock and the revocation store alone
OwnResponse(r, s) ==
    /\ s.body = r.body /\ s.COOKIES = r.COOKIES /\ s.data = r.data
    /\ s.out = r.out /\ s.t0 = r.t0 /\ s.t1 = now
    /\ IF CookieTransport /\ r.view = "TokenRefreshView"
            /\ ~api_settings.ROTATE_REFRESH_TOKENS
            /\ ParseToken(r.data.refresh, "refresh", now, blacklist) # "ok"
       THEN s.exc = "TokenError" /\ s.cookies = {}
       ELSE /\ s.exc = "" /\ s.payload = r.out
            /\ (s.cookies # {}) <=>
                  (CookieTransport /\ r.view \in ObtainViews \cup RefreshViews)
            /\ \A c \in s.cookies :
                  c.expires =
                     IF r.view = "TokenRefreshView"
                           /\ ~api_settings.ROTATE_REFRESH_TOKENS
                     THEN LocalTime(r.data.refresh.exp)
                     ELSE LocalTime(now) + REFRESH_TOKEN_LIFETIME

\* C18: however the requests interleave, a step of one request changes
\* nothing of another request (its body, its resolved token, its payload,
\* its response), and its own outcome is given by its own body and cookies,
\* the settings, the clock and the revocation store as the step reads it.
C18_RequestsIsolated ==
    [][\A h \in Handlers :
          req'[h] # req[h] =>
              /\ \A g \in Handlers \ {h} : req'[g] = req[g]
              /\ req'[h].view \in PostViews =>
                    IF req[h].pc = "validated"
                    THEN OwnResponse(req[h], req'[h])
                    ELSE OwnValidation(req'[h])]_vars

\* with rotation off a Refresh from the cookie has been answered with its
\* cookies while the other handler held a request of another body that
\* arrived in between
C18_Witness ==
    /\ CookieTransport /\ ~api_settings.ROTATE_REFRESH_TOKENS
    /\ req[1].view = "TokenRefreshView" /\ Succeeded(req[1]) /\ req[1].cookieRead
    /\ req[2].pc # "idle"
    /\ req[1].t0 < req[2].t0 /\ req[2].t0 < req[1].t1
    /\ req[2].data # req[1].data

\* C19: under cookie transport an Obtain, Refresh, Verify or Blacklist that
\* fails, in whichever way, sets no auth cookie, deletes none and issues no
\* CSRF token: the client's jar is after the request what it was before.
C19_FailureLeavesJar ==
    [][\A h \in Handlers :
          /\ CookieTransport
          /\ req'[h] # req[h]
          /\ req'[h].view \in PostViews
          /\ req'[h].pc = "done" /\ req'[h].exc # ""
          => /\ req'[h].cookies = {} /\ ~req'[h].csrf
             /\ jar' = jar]_vars

\* handler h answers a request that no other request overlapped: the client
\* sent it after the responses before it and got its response before sending
\* the next
Sequential(h) ==
    \A g \in Handlers \ {h} :
        /\ req[g].pc # "validated"
        /\ req[g].pc = "done" => req[g].t1 < req[h].t0

\* the answer, under cookie transport, to a pair Obtain or to a pair Refresh
\* from the cookie, sent in sequence
SequentialPairAnswer(h) ==
    /\ CookieTransport
    /\ req[h].pc = "validated" /\ req'[h] # req[h]
    /\ Sequential(h)
    /\ req'[h].view \in PairViews /\ Succeeded(req'[h])
    /\ req'[h].view = "TokenRefreshView" => req'[h].cookieRead

\* the refresh cookie the client holds is c alone, the refresh token that the
\* request of r has minted
HoldsNew(r, held) ==
    \E c \in held :
        /\ held = {c}
        /\ c.value = r.payload.refresh /\ c.value \in r.minted
        /\ c.value # r.data.refresh

\* C20 as stated: after each successful pair Obtain or Refresh from the
\* cookie, sent in sequence under cookie transport, the client's refresh
\* cookie is the refresh token issued last: the Obtain's, with
\* ROTATE_REFRESH_TOKENS the one minted by the Refresh, which differs from
\* the one submitted, and without it the cookie as it was, with the value
\* and the expiration it had.
C20_Original ==
    [][\A h \in Handlers :
          SequentialPairAnswer(h) =>
              IF req'[h].view = "TokenObtainPairView"
                    \/ api_settings.ROTATE_REFRESH_TOKENS
              THEN HoldsNew(req'[h], Named(jar', RefreshCookieName))
              ELSE /\ Named(jar', RefreshCookieName) = Named(jar, RefreshCookieName)
                   /\ \E c \in Named(jar, RefreshCookieName) :
                         c.value = req'[h].data.refresh]_vars

\* C20: after each successful pair Obtain or Refresh from the cookie, sent in
\* sequence under cookie transport, the client's refresh cookie is the
\* refresh token issued last: the Obtain's, with ROTATE_REFRESH_TOKENS the
\* one minted by the Refresh, which differs from the one submitted, and
\* without it the cookie keeps its value; its expiration stays as it was when
\* the payload has no refresh token, and is otherwise set to the token's exp,
\* which is not later than the expiration the cookie had.
C20_RefreshCookieIsLatest ==
    [][\A h \in Handlers :
          SequentialPairAnswer(h) =>
              IF req'[h].view = "TokenObtainPairView"
                    \/ api_settings.ROTATE_REFRESH_TOKENS
              THEN HoldsNew(req'[h], Named(jar', RefreshCookieName))
              ELSE \E c \in Named(jar, RefreshCookieName) :
                   \E d \in Named(jar', RefreshCookieName) :
                      /\ Named(jar, RefreshCookieName) = {c}
                      /\ Named(jar', RefreshCookieName) = {d}
                      /\ c.value = req'[h].data.refresh /\ d.value = c.value
                      /\ IF req'[h].payload.refresh = NoToken THEN d = c
                         ELSE /\ d.expires = LocalTime(d.value.exp)
                              /\ d.expires <= c.expires]_vars

\* without rotation a Refresh from the cookie, sent in sequence, has been
\* answered with the submitted refresh token in its payload, and the client
\* holds it with the token's exp as the cookie's expiration
C20_Witness ==
    /\ CookieTransport /\ ~api_settings.ROTATE_REFRESH_TOKENS
    /\ \E h \in Handlers :
          /\ req[h].view = "TokenRefreshView" /\ Succeeded(req[h])
          /\ req[h].cookieRead
          /\ req[h].payload.refresh = req[h].data.refresh
          /\ \A g \in Handlers \ {h} :
                req[g].pc = "idle" \/ (req[g].pc = "done" /\ req[g].t1 < req[h].t0)
          /\ \E c \in jar :
                /\ c.name = RefreshCookieName /\ c.value = req[h].data.refresh
                /\ c.expires = LocalTime(c.value.exp)

====
